---- MODULE Spec2Model ----
(***************************************************************************)
(* A model of querybinder's diagnostic printer (src/error.rs), its debug   *)
(* target (src/target/debug.rs) and the fuzzed lex-then-parse pipeline     *)
(* (fuzz/fuzz_targets/parse.rs).                                           *)
(*                                                                         *)
(* Buffers are sequences of byte values; offsets are 0-based as in the     *)
(* source, so byte i of a buffer is input[i + 1].  Strings that the code   *)
(* builds are sequences of byte values as well.                            *)
(***************************************************************************)
EXTENDS Integers, Sequences, FiniteSets

VARIABLES
    input,      \* the input buffer, &[u8]
    build,      \* "debug" (overflow checks on) or "release" (wrapping)
    pc,         \* position of the running operation
    span,       \* highlight_span_in_line: the span argument
    hl,         \* highlight_span_in_line: what the call produced
    err,        \* Error::print: the error being printed
    printed,    \* Error::print: the parts written to stdout so far
    parsed,     \* process_file: the Document
    cursor,     \* process_file: position in the Document
    out,        \* process_file: the bytes written to the sink
    toks,       \* fuzz target: the tokens the lexer produced
    lx,         \* fuzz target: the lexer's state
    ps          \* fuzz target: the parser's state

vars == <<input, build, pc, span, hl, err, printed, parsed, cursor, out, toks, lx, ps>>

-----------------------------------------------------------------------------
(* Bounds of the model. *)

\* Longest buffer handed to highlight_span_in_line on its own.
MaxLen == 4

\* Error::print: newline-terminated lines in the buffer, bytes in a line, bytes
\* in a span, and how far before the end of the buffer a span may start.
MaxLines == 10
MaxLineLen == 1
MaxSpanLen == 1
MaxFromEnd == 3

\* process_file: sections, doc lines and parameters in a Document, together.
MaxEntries == 3

\* Fuzz target: longest input text drawn from FuzzBytes.
MaxFuzzLen == 4

-----------------------------------------------------------------------------
(* Bytes. *)

NL == 10
Space == 32
\* Bytes of input text: an ASCII letter, and the two bytes of a UTF-8 character,
\* each of which alone is invalid UTF-8.
AsciiText == <<97>>
Utf8Char == <<195, 169>>
Letter == AsciiText[1]
Lead == Utf8Char[1]
Cont == Utf8Char[2]

Caret == 94
Tilde == 126
Bar == 124
Colon == 58
Digit0 == 48

\* U+FFFD REPLACEMENT CHARACTER in UTF-8.
Replacement == <<239, 191, 189>>

Bytes == {Letter, NL, Lead, Cont}

Builds == {"debug", "release"}

\* usize arithmetic wraps modulo 2^64 in a release build.  TLC's integers are
\* 32 bits wide, so the modulus is scaled down; like 2^64 it exceeds every
\* length and offset the model can form.
UsizeModulus == 2^24

RECURSIVE SeqsUpTo(_, _)
SeqsUpTo(S, n) ==
    IF n = 0 THEN {<<>>}
    ELSE LET shorter == SeqsUpTo(S, n - 1)
         IN  shorter \cup {Append(s, b) : s \in {t \in shorter : Len(t) = n - 1}, b \in S}

\* Span's invariant: 0 <= start <= end <= len(input).
SpansIn(buf) ==
    {[start |-> s, end |-> e] : s \in 0..Len(buf), e \in 0..Len(buf)} \cap
    {sp \in [start : 0..Len(buf), end : 0..Len(buf)] : sp.start <= sp.end}

Repeat(c, n) == [i \in 1..n |-> c]

\* input[from..to], 0-based and half-open.
Slice(buf, from, to) == SubSeq(buf, from + 1, to)

-----------------------------------------------------------------------------
(* lib.rs *)

SpanLen(sp) == sp.end - sp.start

-----------------------------------------------------------------------------
(* error.rs: highlight_span_in_line *)

\* String::from_utf8_lossy over the model's bytes.
RECURSIVE FromUtf8Lossy(_)
FromUtf8Lossy(bs) ==
    IF bs = <<>> THEN <<>>
    ELSE IF bs[1] < 128 THEN <<bs[1]>> \o FromUtf8Lossy(Tail(bs))
    ELSE IF bs[1] = Lead /\ Len(bs) >= 2 /\ bs[2] = Cont
         THEN <<Lead, Cont>> \o FromUtf8Lossy(Tail(Tail(bs)))
    ELSE Replacement \o FromUtf8Lossy(Tail(bs))

\* i32::to_string for a non-negative number.
RECURSIVE ToString(_)
ToString(n) ==
    IF n < 10 THEN <<Digit0 + n>>
    ELSE ToString(n \div 10) \o <<Digit0 + (n % 10)>>

\* As LocateLine, but the newline test comes before the test for span.start.
RECURSIVE LocateLineCountsAtStart(_, _, _, _, _)
LocateLineCountsAtStart(buf, start, i, line, line_start) ==
    IF i >= Len(buf) THEN [line |-> line, line_start |-> line_start]
    ELSE IF buf[i + 1] = NL
         THEN IF i = start THEN [line |-> line + 1, line_start |-> i + 1]
              ELSE LocateLineCountsAtStart(buf, start, i + 1, line + 1, i + 1)
    ELSE IF i = start THEN [line |-> line, line_start |-> line_start]
    ELSE LocateLineCountsAtStart(buf, start, i + 1, line, line_start)

\* The first loop: count lines and find the start of the line of span.start.
RECURSIVE LocateLine(_, _, _, _, _)
LocateLine(buf, start, i, line, line_start) ==
    IF i >= Len(buf) \/ i = start
    THEN [line |-> line, line_start |-> line_start]
    ELSE IF buf[i + 1] = NL
         THEN LocateLine(buf, start, i + 1, line + 1, i + 1)
         ELSE LocateLine(buf, start, i + 1, line, line_start)

\* The second loop: find the newline that ends the line.
RECURSIVE LocateLineEnd(_, _, _)
LocateLineEnd(buf, i, line_end) ==
    IF i >= Len(buf) THEN line_end
    ELSE IF buf[i + 1] = NL THEN i
    ELSE LocateLineEnd(buf, i + 1, line_end)

\* A subtraction on usize: a panic in a debug build, wrapping in a release build.
SubOverflows(a, b) == a < b
WrappingSub(a, b) == IF a < b THEN a - b + UsizeModulus ELSE a - b

Min(a, b) == IF a < b THEN a ELSE b
Max(a, b) == IF a > b THEN a ELSE b

FName == <<102>>

Panic(why) ==
    [outcome |-> "panic", why |-> why, wrapped |-> FALSE, line |-> 0, line_start |-> 0,
     line_end |-> 0, line_content |-> <<>>, mark_len |-> 0, text |-> <<>>]

MarkLen(sp, content_len, line_start) ==
    Max(1, Min(SpanLen(sp), WrappingSub(content_len + line_start, sp.start)))

\* As LineNumPad, but one space whatever the line number.
LineNumPadSingle(line_num_str) == <<Space>>

LineNumPad(line_num_str) == [i \in 1..Len(line_num_str) |-> Space]

\* As MarkUnderline, but the caret is put before the tildes, not in place of
\* the first.
MarkUnderlineKeepsAll(mark_indent, mark_under) ==
    mark_indent \o <<Caret>> \o mark_under

MarkUnderline(mark_indent, mark_under) ==
    mark_indent \o <<Caret>> \o SubSeq(mark_under, 2, Len(mark_under))

\* The four writeln! calls; each line without its terminating newline.
Render(fname, line, column, line_content, mark_indent, mark_under) ==
    LET line_num_str == ToString(line)
        line_num_pad == LineNumPad(line_num_str)
    IN  << <<45, 45, 62, Space>> \o fname \o <<Colon>> \o ToString(line)
               \o <<Colon>> \o ToString(column),
           line_num_pad \o <<Space, Bar>>,
           line_num_str \o <<Space, Bar, Space>> \o line_content,
           line_num_pad \o <<Space, Bar, Space>> \o MarkUnderline(mark_indent, mark_under) >>

highlight_span_in_line(fname, buf, sp, bld) ==
    LET loc == LocateLine(buf, sp.start, 0, 1, 0)
        line == loc.line
        line_start == loc.line_start
        line_end == LocateLineEnd(buf, line_start, 0)
    IN  IF line_start > line_end
        THEN Panic("slice index starts after its end")
        ELSE
        LET line_content == FromUtf8Lossy(Slice(buf, line_start, line_end))
        IN  IF bld = "debug" /\ SubOverflows(Len(line_content) + line_start, sp.start)
            THEN Panic("attempt to subtract with overflow")
            ELSE
            LET mark_len == MarkLen(sp, Len(line_content), line_start)
                mark_indent == Repeat(Space, sp.start - line_start)
                mark_under == Repeat(Tilde, mark_len)
            IN  [outcome |-> "ok", why |-> "",
                 wrapped |-> SubOverflows(Len(line_content) + line_start, sp.start),
                 line |-> line, line_start |-> line_start,
                 line_end |-> line_end, line_content |-> line_content,
                 mark_len |-> mark_len,
                 text |-> Render(fname, line, sp.start - line_start, line_content,
                                 mark_indent, mark_under)]

NoSpan == [start |-> 0, end |-> 0]
NoCall == Panic("")

-----------------------------------------------------------------------------
(* The specification of a single call of highlight_span_in_line. *)

Init ==
    /\ input \in SeqsUpTo(Bytes, MaxLen)
    /\ build \in Builds
    /\ span \in SpansIn(input)
    /\ pc = "call"
    /\ hl = NoCall
    /\ err = <<>> /\ printed = <<>>
    /\ parsed = <<>> /\ cursor = <<>> /\ out = <<>>
    /\ toks = <<>> /\ lx = <<>> /\ ps = <<>>

Highlight ==
    /\ pc = "call"
    /\ hl' = highlight_span_in_line(FName, input, span, build)
    /\ pc' = "returned"
    /\ UNCHANGED <<input, build, span, err, printed, parsed, cursor, out, toks, lx, ps>>

Next == Highlight

Spec == Init /\ [][Next]_vars

-----------------------------------------------------------------------------
(* error.rs: Error::print.  An error is its span, its note (absent, a text, *)
(* or a text with a span) and whether it has a hint; the texts themselves   *)
(* are fixed.                                                              *)

MessageText == <<109>>
NoteText == <<110>>
HintText == <<104>>

ErrorLine == <<69, 114, 114, 111, 114, Colon, Space>> \o MessageText
NoteLine == <<78, 111, 116, 101, Colon, Space>> \o NoteText
HintLine == <<72, 105, 110, 116, Colon, Space>> \o HintText

Part(kind, lines) == [part |-> kind, lines |-> lines]

\* let highlight = highlight_span_in_line(..); print!("Error: {}\n{}", ..)
PrintError ==
    /\ pc = "print"
    /\ LET highlight == highlight_span_in_line(FName, input, err.span, build)
       IN  IF highlight.outcome = "panic"
           THEN pc' = "panicked" /\ printed' = printed
           ELSE /\ printed' = printed \o <<Part("error", <<ErrorLine>>),
                                            Part("highlight", highlight.text)>>
                /\ pc' = "note"
    /\ UNCHANGED <<input, build, span, hl, err, parsed, cursor, out, toks, lx, ps>>

\* if let Some((note, opt_note_span)) = self.note() { println!("Note: {}", note);
PrintNote ==
    /\ pc = "note"
    /\ IF err.note # "none"
       THEN printed' = Append(printed, Part("note", <<NoteLine>>)) /\ pc' = "note_span"
       ELSE printed' = printed /\ pc' = "hint"
    /\ UNCHANGED <<input, build, span, hl, err, parsed, cursor, out, toks, lx, ps>>

\* As PrintNoteHighlight, but the primary span is highlighted again.
PrintNoteHighlightOfPrimary ==
    /\ pc = "note_span"
    /\ IF err.note = "span"
       THEN LET highlight == highlight_span_in_line(FName, input, err.span, build)
            IN  IF highlight.outcome = "panic"
                THEN pc' = "panicked" /\ printed' = printed
                ELSE /\ printed' = Append(printed, Part("highlight", highlight.text))
                     /\ pc' = "hint"
       ELSE printed' = printed /\ pc' = "hint"
    /\ UNCHANGED <<input, build, span, hl, err, parsed, cursor, out, toks, lx, ps>>

\* if let Some(note_span) = opt_note_span { .. print!("{}", highlight); }
PrintNoteHighlight ==
    /\ pc = "note_span"
    /\ IF err.note = "span"
       THEN LET highlight == highlight_span_in_line(FName, input, err.note_span, build)
            IN  IF highlight.outcome = "panic"
                THEN pc' = "panicked" /\ printed' = printed
                ELSE /\ printed' = Append(printed, Part("highlight", highlight.text))
                     /\ pc' = "hint"
       ELSE printed' = printed /\ pc' = "hint"
    /\ UNCHANGED <<input, build, span, hl, err, parsed, cursor, out, toks, lx, ps>>

\* if let Some(hint) = self.hint() { println!("Hint: {}", hint); }
PrintHint ==
    /\ pc = "hint"
    /\ printed' = IF err.hint THEN Append(printed, Part("hint", <<HintLine>>)) ELSE printed
    /\ pc' = "done"
    /\ UNCHANGED <<input, build, span, hl, err, parsed, cursor, out, toks, lx, ps>>

\* Buffers of up to MaxLines equal lines, each ended by a newline, and a last
\* line of the same kind that is not.
RECURSIVE Lines(_, _)
Lines(n, body) == IF n = 0 THEN <<>> ELSE body \o <<NL>> \o Lines(n - 1, body)

PrintInputs ==
    {Lines(n, body) \o last : n \in 0..MaxLines,
                              body \in SeqsUpTo({Letter}, MaxLineLen),
                              last \in SeqsUpTo({Letter}, MaxLineLen)}

\* In-bounds spans of at most MaxSpanLen bytes that start at most MaxFromEnd
\* bytes before the end of the buffer.
PrintSpans(buf) ==
    {sp \in SpansIn(buf) : sp.end - sp.start <= MaxSpanLen
                           /\ sp.start >= Len(buf) - MaxFromEnd}

Errors(buf) ==
    {[span |-> sp, note |-> "none", note_span |-> NoSpan, hint |-> h]
        : sp \in PrintSpans(buf), h \in BOOLEAN}
    \cup {[span |-> sp, note |-> "text", note_span |-> NoSpan, hint |-> h]
        : sp \in PrintSpans(buf), h \in BOOLEAN}
    \cup {[span |-> sp, note |-> "span", note_span |-> nsp, hint |-> h]
        : sp \in PrintSpans(buf), nsp \in PrintSpans(buf), h \in BOOLEAN}

InitPrint ==
    /\ input \in PrintInputs
    /\ build \in Builds
    /\ err \in Errors(input)
    /\ pc = "print"
    /\ printed = <<>>
    /\ span = NoSpan /\ hl = NoCall
    /\ parsed = <<>> /\ cursor = <<>> /\ out = <<>>
    /\ toks = <<>> /\ lx = <<>> /\ ps = <<>>

NextPrint == PrintError \/ PrintNote \/ PrintNoteHighlight \/ PrintHint

SpecPrint == InitPrint /\ [][NextPrint]_vars

-----------------------------------------------------------------------------
(* lib.rs: Span::resolve, and target/debug.rs: process_file.               *)

RECURSIVE IsValidUtf8(_)
IsValidUtf8(bs) ==
    IF bs = <<>> THEN TRUE
    ELSE IF bs[1] < 128 THEN IsValidUtf8(Tail(bs))
    ELSE IF bs[1] = Lead /\ Len(bs) >= 2 /\ bs[2] = Cont THEN IsValidUtf8(Tail(Tail(bs)))
    ELSE FALSE

\* str::from_utf8(&input[start..end]).expect(..) panics on invalid UTF-8.
ResolvePanics(sp, buf) == ~IsValidUtf8(Slice(buf, sp.start, sp.end))
Resolve(sp, buf) == Slice(buf, sp.start, sp.end)

Quote == 34
Backslash == 92

\* <str as Debug>::fmt over the model's bytes: quoted, the newline escaped.
RECURSIVE EscapeDebug(_)
EscapeDebug(bs) ==
    IF bs = <<>> THEN <<>>
    ELSE (IF bs[1] = NL THEN <<Backslash, 110>> ELSE <<bs[1]>>) \o EscapeDebug(Tail(bs))

DebugStr(bs) == <<Quote>> \o EscapeDebug(bs) \o <<Quote>>

Red == <<27, 91, 51, 49, 109>>
Green == <<27, 91, 51, 50, 109>>
Yellow == <<27, 91, 51, 51, 109>>
Blue == <<27, 91, 51, 52, 109>>
Reset == <<27, 91, 48, 109>>

Dashes == <<45, 45>>
AtQuery == <<64, 113, 117, 101, 114, 121>>
Arrow == <<45, 62>>

\* writeln!(out, "{}--{}", red, doc_line.resolve(input))
DocLine(text) == Red \o Dashes \o text \o <<NL>>
\* writeln!(out, "{}-- {}@query{} {}", reset, green, reset, name)
QueryLine(name) ==
    Reset \o Dashes \o <<Space>> \o Green \o AtQuery \o Reset \o <<Space>> \o name \o <<NL>>
\* writeln!(out, "{}-- {}: {}{:?}", reset, ident, yellow, type_)
ParameterLine(ident, type_) ==
    Reset \o Dashes \o <<Space>> \o ident \o <<Colon, Space>> \o Yellow
        \o DebugStr(type_) \o <<NL>>
\* writeln!(out, "{}-- -> {}{:?}{}", reset, yellow, result_type, reset)
ResultLine(result_type) ==
    Reset \o Dashes \o <<Space>> \o Arrow \o <<Space>> \o Yellow
        \o DebugStr(result_type) \o Reset \o <<NL>>

Verbatim(sp) ==
    [kind |-> "Verbatim", span |-> sp, docs |-> <<>>, name |-> NoSpan,
     parameters |-> <<>>, result_type |-> NoSpan]
Query(docs, name, parameters, result_type) ==
    [kind |-> "Query", span |-> NoSpan, docs |-> docs, name |-> name,
     parameters |-> parameters, result_type |-> result_type]

Section == IF cursor.sec <= Len(parsed) THEN parsed[cursor.sec] ELSE Verbatim(NoSpan)

\* for doc_line in &query.docs / for param in &annotation.parameters: the
\* element the k-th iteration visits.
DocIndex(k) == k

\* As ParameterIndex, but the parameters are visited last to first.
ParameterIndexReversed(k) == Len(Section.parameters) + 1 - k

ParameterIndex(k) == k

\* The write the loop is about to make: the spans it resolves, the bytes it
\* hands to the sink, and where the loop stands after it.
PendingWrite ==
    LET sec == Section
    IN  CASE cursor.stage = "section" /\ sec.kind = "Verbatim" ->
                 [resolves |-> {sec.span},
                  bytes |-> Resolve(sec.span, input),
                  next |-> [sec |-> cursor.sec + 1, stage |-> "section", k |-> 1]]
          [] cursor.stage = "section" /\ sec.kind = "Query" ->
                 [resolves |-> {},
                  bytes |-> Blue,
                  next |-> [sec |-> cursor.sec, stage |-> "docs", k |-> 1]]
          [] cursor.stage = "docs" /\ cursor.k <= Len(sec.docs) ->
                 [resolves |-> {sec.docs[DocIndex(cursor.k)]},
                  bytes |-> DocLine(Resolve(sec.docs[DocIndex(cursor.k)], input)),
                  next |-> [cursor EXCEPT !.k = @ + 1]]
          [] cursor.stage = "docs" /\ cursor.k > Len(sec.docs) ->
                 [resolves |-> {sec.name},
                  bytes |-> QueryLine(Resolve(sec.name, input)),
                  next |-> [sec |-> cursor.sec, stage |-> "params", k |-> 1]]
          [] cursor.stage = "params" /\ cursor.k <= Len(sec.parameters) ->
                 LET param == sec.parameters[ParameterIndex(cursor.k)]
                 IN  [resolves |-> {param.ident, param.type_},
                      bytes |-> ParameterLine(Resolve(param.ident, input),
                                              Resolve(param.type_, input)),
                      next |-> [cursor EXCEPT !.k = @ + 1]]
          [] cursor.stage = "params" /\ cursor.k > Len(sec.parameters) ->
                 [resolves |-> {sec.result_type},
                  bytes |-> ResultLine(Resolve(sec.result_type, input)),
                  next |-> [sec |-> cursor.sec + 1, stage |-> "section", k |-> 1]]

\* One write!: the arguments are resolved first, then the bytes are written.
Write ==
    LET w == PendingWrite
    IN  /\ IF \E sp \in w.resolves : ResolvePanics(sp, input)
           THEN pc' = "panicked" /\ UNCHANGED <<out, cursor>>
           ELSE pc' = pc /\ out' = out \o w.bytes /\ cursor' = w.next
        /\ UNCHANGED <<input, build, span, hl, err, printed, parsed, toks, lx, ps>>

InSection == pc = "run" /\ cursor.sec <= Len(parsed)

WriteVerbatim ==
    /\ InSection /\ cursor.stage = "section" /\ Section.kind = "Verbatim"
    /\ Write

WriteBlue ==
    /\ InSection /\ cursor.stage = "section" /\ Section.kind = "Query"
    /\ Write

WriteDocLine ==
    /\ InSection /\ cursor.stage = "docs" /\ cursor.k <= Len(Section.docs)
    /\ Write

WriteQueryName ==
    /\ InSection /\ cursor.stage = "docs" /\ cursor.k > Len(Section.docs)
    /\ Write

WriteParameter ==
    /\ InSection /\ cursor.stage = "params" /\ cursor.k <= Len(Section.parameters)
    /\ Write

WriteResultType ==
    /\ InSection /\ cursor.stage = "params" /\ cursor.k > Len(Section.parameters)
    /\ Write

\* The `?` after a write!: the sink reports an error after it took some, but
\* not all, of the bytes, and process_file returns it.
WriteFails ==
    /\ InSection
    /\ LET w == PendingWrite
       IN  /\ \A sp \in w.resolves : ~ResolvePanics(sp, input)
           /\ \E n \in 0..(Len(w.bytes) - 1) : out' = out \o SubSeq(w.bytes, 1, n)
    /\ pc' = "io_error"
    /\ UNCHANGED <<input, build, span, hl, err, printed, parsed, cursor, toks, lx, ps>>

\* Ok(())
ReturnOk ==
    /\ pc = "run" /\ cursor.sec > Len(parsed)
    /\ pc' = "ok"
    /\ UNCHANGED <<input, build, span, hl, err, printed, parsed, cursor, out, toks, lx, ps>>

\* Documents of at most MaxEntries sections, doc lines and parameters in all,
\* the spans in source order and not overlapping, as a parser that walks the
\* buffer once produces them.
RECURSIVE SpanSeqs(_, _, _)
SpanSeqs(from, n, len) ==
    IF n = 0 THEN {<<>>}
    ELSE UNION {UNION {{<<[start |-> s, end |-> e]>> \o rest
                            : rest \in SpanSeqs(e, n - 1, len)}
                       : e \in s..len}
                : s \in from..len}

ShapeSize(sh) == IF sh.kind = "Verbatim" THEN 1 ELSE 2 + sh.d + 2 * sh.p
ShapeEntries(sh) == 1 + sh.d + sh.p

SectionShapes(budget) ==
    {sh \in [kind : {"Verbatim", "Query"}, d : 0..budget, p : 0..budget] :
        /\ ShapeEntries(sh) <= budget
        /\ sh.kind = "Verbatim" => sh.d = 0 /\ sh.p = 0}

RECURSIVE Shapes(_)
Shapes(budget) ==
    {<<>>} \cup UNION {{<<sh>> \o rest : rest \in Shapes(budget - ShapeEntries(sh))}
                       : sh \in SectionShapes(budget)}

BuildSection(sh, ss) ==
    IF sh.kind = "Verbatim" THEN Verbatim(ss[1])
    ELSE Query(SubSeq(ss, 1, sh.d),
               ss[sh.d + 1],
               [i \in 1..sh.p |-> [ident |-> ss[sh.d + 2 * i], type_ |-> ss[sh.d + 2 * i + 1]]],
               ss[sh.d + 2 * sh.p + 2])

RECURSIVE BuildDocument(_, _)
BuildDocument(shs, ss) ==
    IF shs = <<>> THEN <<>>
    ELSE <<BuildSection(shs[1], ss)>>
             \o BuildDocument(Tail(shs), SubSeq(ss, ShapeSize(shs[1]) + 1, Len(ss)))

RECURSIVE TotalSize(_)
TotalSize(shs) == IF shs = <<>> THEN 0 ELSE ShapeSize(shs[1]) + TotalSize(Tail(shs))

Documents(len) ==
    UNION {{BuildDocument(shs, ss) : ss \in SpanSeqs(0, TotalSize(shs), len)}
           : shs \in Shapes(MaxEntries)}

\* Buffers for process_file: ASCII with a newline, a two-byte character, and a
\* byte that is not UTF-8.
DebugInputs == {<<>>, <<Letter, NL>>, <<Lead, Cont>>, <<Cont>>}

InitDebug ==
    /\ input \in DebugInputs
    /\ parsed \in Documents(Len(input))
    /\ cursor = [sec |-> 1, stage |-> "section", k |-> 1]
    /\ out = <<>>
    /\ pc = "run"
    /\ build = "debug"
    /\ span = NoSpan /\ hl = NoCall
    /\ err = <<>> /\ printed = <<>>
    /\ toks = <<>> /\ lx = <<>> /\ ps = <<>>

NextDebug ==
    \/ WriteVerbatim \/ WriteBlue \/ WriteDocLine \/ WriteQueryName
    \/ WriteParameter \/ WriteResultType \/ WriteFails \/ ReturnOk

SpecDebug == InitDebug /\ [][NextDebug]_vars

-----------------------------------------------------------------------------
(* fuzz_targets/parse.rs: the SQL lexer, then the document parser.  The     *)
(* harness and lib.rs's is_ascii_identifier are modelled from their code;  *)
(* the lexers and the parser are modelled from their design description    *)
(* (sections 4.1 to 4.3 and 6 of the specification).                       *)

Dash == 45
Semicolon == 59
SingleQuote == 39
At == 64
Comma == 44
Greater == 62

\* lib.rs: ch.is_ascii_alphanumeric() || ch == b'_'
is_ascii_identifier(ch) ==
    \/ ch \in 48..57
    \/ ch \in 65..90
    \/ ch \in 97..122
    \/ ch = 95

Token(kind, from, to) == [kind |-> kind, start |-> from, end |-> to]

\* The first offset at or after from where the run of bytes in S ends.
RunEnd(buf, from, S) ==
    CHOOSE i \in from..Len(buf) :
        /\ i = Len(buf) \/ buf[i + 1] \notin S
        /\ \A j \in from..(i - 1) : buf[j + 1] \in S

IdentifierBytes == {ch \in 0..255 : is_ascii_identifier(ch)}

AtLineStart(buf, i) == i = 0 \/ buf[i] = NL

\* As NextToken, but a comment token stops before its marker.
NextTokenEmptyComment(buf, i) ==
    LET b == buf[i + 1]
    IN  CASE b = NL -> Token("Newline", i, i + 1)
          [] b = Space -> Token("Space", i, RunEnd(buf, i, {Space}))
          [] b = Dash /\ i + 1 < Len(buf) /\ buf[i + 2] = Dash -> Token("Comment", i, i)
          [] b = Semicolon -> Token("Semicolon", i, i + 1)
          [] OTHER -> Token("Punct", i, i + 1)

\* The SQL lexer's next token at offset i < len(input).
NextToken(buf, i) ==
    LET b == buf[i + 1]
    IN  CASE b = NL -> Token("Newline", i, i + 1)
          [] b = Space -> Token("Space", i, RunEnd(buf, i, {Space}))
          [] b = Dash /\ i + 1 < Len(buf) /\ buf[i + 2] = Dash ->
                 Token(IF AtLineStart(buf, i) THEN "DocComment" ELSE "Comment",
                       i, RunEnd(buf, i, 0..255 \ {NL}))
          [] is_ascii_identifier(b) -> Token("Ident", i, RunEnd(buf, i, IdentifierBytes))
          [] b = SingleQuote ->
                 LET close == RunEnd(buf, i + 1, 0..255 \ {SingleQuote})
                 IN  IF close < Len(buf) THEN Token("String", i, close + 1)
                     ELSE Token("Error", i, Len(buf))
          [] b = Semicolon -> Token("Semicolon", i, i + 1)
          [] b >= 128 -> Token("Error", i, i + 1)
          [] OTHER -> Token("Punct", i, i + 1)

\* let lexer = Lexer::new(&input);
FuzzLexerNew ==
    /\ pc = "start"
    /\ lx' = [pos |-> 0, steps |-> 1]
    /\ toks' = <<>>
    /\ pc' = "lex"
    /\ UNCHANGED <<input, build, span, hl, err, printed, parsed, cursor, out, ps>>

\* lexer.run(): one token more.
LexToken ==
    /\ pc = "lex" /\ lx.pos < Len(input)
    /\ LET t == NextToken(input, lx.pos)
       IN  /\ toks' = Append(toks, t)
           /\ lx' = [pos |-> t.end, steps |-> lx.steps + 1]
    /\ UNCHANGED <<input, build, pc, span, hl, err, printed, parsed, cursor, out, ps>>

\* lexer.run(): the end-of-input marker; the tokens are returned.
LexEof ==
    /\ pc = "lex" /\ lx.pos >= Len(input)
    /\ toks' = Append(toks, Token("Eof", Len(input), Len(input)))
    /\ lx' = [lx EXCEPT !.steps = @ + 1]
    /\ pc' = "lexed"
    /\ UNCHANGED <<input, build, span, hl, err, printed, parsed, cursor, out, ps>>

\* The annotation lexer over the sub-range [i, to) of the buffer; its spans are
\* offsets into the whole buffer.  An Error token ends the sequence.
RECURSIVE AnnotationTokens(_, _, _)
AnnotationTokens(buf, i, to) ==
    IF i >= to THEN <<>>
    ELSE LET b == buf[i + 1]
             line == SubSeq(buf, 1, to)
         IN  CASE b = Space -> AnnotationTokens(buf, i + 1, to)
               [] b = At ->
                      LET e == RunEnd(line, i + 1, IdentifierBytes)
                      IN  <<Token("Directive", i, e)>> \o AnnotationTokens(buf, e, to)
               [] is_ascii_identifier(b) ->
                      LET e == RunEnd(line, i, IdentifierBytes)
                      IN  <<Token("Ident", i, e)>> \o AnnotationTokens(buf, e, to)
               [] b = Colon -> <<Token("Colon", i, i + 1)>> \o AnnotationTokens(buf, i + 1, to)
               [] b = Comma -> <<Token("Comma", i, i + 1)>> \o AnnotationTokens(buf, i + 1, to)
               [] b = Dash /\ i + 1 < to /\ buf[i + 2] = Greater ->
                      <<Token("Arrow", i, i + 2)>> \o AnnotationTokens(buf, i + 2, to)
               [] OTHER -> <<Token("Error", i, i + 1)>>

KindsOf(ts) == [i \in DOMAIN ts |-> ts[i].kind]

\* The tokens of a doc-comment line, its `--` marker stripped.
LineTokens(buf, t) == AnnotationTokens(buf, t.start + 2, t.end)

IsDirectiveLine(buf, t) ==
    LET ts == LineTokens(buf, t)
    IN  /\ ts # <<>>
        /\ ts[1].kind = "Directive"
        /\ Slice(buf, ts[1].start, ts[1].end) = AtQuery

\* `ident : type` pairs separated by commas: how many, or -1 when malformed.
RECURSIVE ParameterCount(_)
ParameterCount(kinds) ==
    IF Len(kinds) >= 3 /\ SubSeq(kinds, 1, 3) = <<"Ident", "Colon", "Ident">>
    THEN IF Len(kinds) = 3 THEN 1
         ELSE IF kinds[4] = "Comma"
              THEN LET rest == ParameterCount(SubSeq(kinds, 5, Len(kinds)))
                   IN  IF rest < 0 THEN -1 ELSE 1 + rest
              ELSE -1
    ELSE -1

NoVerbatim == -1

\* Parser::new(&input, &tokens)
FuzzParserNew ==
    /\ pc = "lexed"
    /\ ps' = [cur |-> 1, mode |-> "top", sections |-> <<>>, vstart |-> NoVerbatim,
              qstart |-> 0, have_result |-> FALSE, steps |-> 1,
              result |-> "", error |-> NoSpan]
    /\ pc' = "parse"
    /\ UNCHANGED <<input, build, span, hl, err, printed, parsed, cursor, out, toks, lx>>

Current == toks[ps.cur]

\* Past the token at cur, and past the newline that ends its line.
AfterLine ==
    IF toks[ps.cur + 1].kind = "Newline" THEN ps.cur + 2 ELSE ps.cur + 1

Fail(state, sp) ==
    [state EXCEPT !.result = "ParseError", !.error = sp, !.steps = @ + 1]

FlushVerbatim(state, upto) ==
    IF state.vstart = NoVerbatim \/ state.vstart = upto THEN [state EXCEPT !.vstart = NoVerbatim]
    ELSE [state EXCEPT !.sections = Append(@, Token("Verbatim", state.vstart, upto)),
                       !.vstart = NoVerbatim]

ParserUnchanged == UNCHANGED <<input, build, span, hl, err, printed, parsed, cursor, out, toks, lx>>

\* A lex-error token ends the parse with that error.
ParseLexError ==
    /\ pc = "parse" /\ Current.kind = "Error"
    /\ ps' = Fail(ps, [start |-> Current.start, end |-> Current.end])
    /\ pc' = "returned"
    /\ ParserUnchanged

\* Anything outside a query is passed through.
ParseVerbatimToken ==
    /\ pc = "parse" /\ ps.mode = "top"
    /\ Current.kind \notin {"Error", "Eof", "DocComment"}
    /\ ps' = [ps EXCEPT !.vstart = IF @ = NoVerbatim THEN Current.start ELSE @,
                        !.cur = @ + 1, !.steps = @ + 1]
    /\ pc' = pc
    /\ ParserUnchanged

\* A plain doc-comment line: a candidate doc line of a query.
ParseDocLine ==
    /\ pc = "parse" /\ ps.mode \in {"top", "docs"}
    /\ Current.kind = "DocComment" /\ ~IsDirectiveLine(input, Current)
    /\ ps' = [ps EXCEPT !.mode = "docs",
                        !.qstart = IF ps.mode = "top" THEN Current.start ELSE @,
                        !.cur = AfterLine, !.steps = @ + 1]
    /\ pc' = pc
    /\ ParserUnchanged

\* The `@query` line: the annotation lexer runs over it; a name must follow.
ParseDirective ==
    /\ pc = "parse" /\ ps.mode \in {"top", "docs"}
    /\ Current.kind = "DocComment" /\ IsDirectiveLine(input, Current)
    /\ LET ts == LineTokens(input, Current)
           from == IF ps.mode = "top" THEN Current.start ELSE ps.qstart
       IN  IF Len(ts) = 1
           THEN ps' = Fail(ps, [start |-> ts[1].end, end |-> ts[1].end]) /\ pc' = "returned"
           ELSE IF ts[2].kind # "Ident"
           THEN ps' = Fail(ps, [start |-> ts[2].start, end |-> ts[2].end]) /\ pc' = "returned"
           ELSE IF Len(ts) > 2
           THEN ps' = Fail(ps, [start |-> ts[3].start, end |-> ts[3].end]) /\ pc' = "returned"
           ELSE /\ ps' = [FlushVerbatim(ps, from) EXCEPT
                             !.mode = "annotation", !.qstart = from, !.have_result = FALSE,
                             !.cur = AfterLine, !.steps = @ + 1]
                /\ pc' = pc
    /\ ParserUnchanged

\* A line of the annotation block: parameters, or the result type, which is last.
ParseAnnotationLine ==
    /\ pc = "parse" /\ ps.mode = "annotation" /\ Current.kind = "DocComment"
    /\ LET ts == LineTokens(input, Current)
           kinds == KindsOf(ts)
           whole == [start |-> Current.start, end |-> Current.end]
       IN  IF ps.have_result
           THEN ps' = Fail(ps, whole) /\ pc' = "returned"
           ELSE IF ts # <<>> /\ ts[Len(ts)].kind = "Error"
           THEN /\ ps' = Fail(ps, [start |-> ts[Len(ts)].start, end |-> ts[Len(ts)].end])
                /\ pc' = "returned"
           ELSE IF kinds = <<"Arrow", "Ident">>
           THEN /\ ps' = [ps EXCEPT !.have_result = TRUE, !.cur = AfterLine, !.steps = @ + 1]
                /\ pc' = pc
           ELSE IF ParameterCount(kinds) > 0
           THEN ps' = [ps EXCEPT !.cur = AfterLine, !.steps = @ + 1] /\ pc' = pc
           ELSE ps' = Fail(ps, whole) /\ pc' = "returned"
    /\ ParserUnchanged

\* A run of doc lines with no directive is ordinary text.
ParseDocsEnd ==
    /\ pc = "parse" /\ ps.mode = "docs"
    /\ Current.kind \notin {"Error", "DocComment"}
    /\ ps' = [ps EXCEPT !.mode = "top",
                        !.vstart = IF @ = NoVerbatim THEN ps.qstart ELSE @,
                        !.steps = @ + 1]
    /\ pc' = pc
    /\ ParserUnchanged

\* After the annotation block a statement must start.
ParseAnnotationEnd ==
    /\ pc = "parse" /\ ps.mode = "annotation"
    /\ Current.kind \notin {"Error", "DocComment"}
    /\ IF ~ps.have_result \/ Current.kind \in {"Eof", "Newline", "Space", "Comment", "Semicolon"}
       THEN ps' = Fail(ps, [start |-> Current.start, end |-> Current.end]) /\ pc' = "returned"
       ELSE ps' = [ps EXCEPT !.mode = "statement", !.steps = @ + 1] /\ pc' = pc
    /\ ParserUnchanged

\* The statement is taken verbatim up to its terminator.
ParseStatementToken ==
    /\ pc = "parse" /\ ps.mode = "statement" /\ Current.kind # "Error"
    /\ ps' = IF Current.kind = "Semicolon"
             THEN [ps EXCEPT !.sections = Append(@, Token("Query", ps.qstart, Current.end)),
                             !.mode = "top", !.cur = @ + 1, !.steps = @ + 1]
             ELSE IF Current.kind = "Eof"
             THEN [ps EXCEPT !.sections = Append(@, Token("Query", ps.qstart, Current.start)),
                             !.mode = "top", !.steps = @ + 1]
             ELSE [ps EXCEPT !.cur = @ + 1, !.steps = @ + 1]
    /\ pc' = pc
    /\ ParserUnchanged

\* End of input: the Document is returned.
ParseEof ==
    /\ pc = "parse" /\ ps.mode = "top" /\ Current.kind = "Eof"
    /\ ps' = [FlushVerbatim(ps, Current.start) EXCEPT !.result = "Document", !.steps = @ + 1]
    /\ pc' = "returned"
    /\ ParserUnchanged

\* Short texts over a few bytes, and longer texts in the documented syntax.
FuzzBytes == {Letter, Space, NL, Dash, SingleQuote, Semicolon}

\* -- @query q / -- i: I / -- -> U / S;
SampleQuery ==
    <<45, 45, 32, 64, 113, 117, 101, 114, 121, 32, 113, 10,
      45, 45, 32, 105, 58, 32, 73, 10,
      45, 45, 32, 45, 62, 32, 85, 10,
      83, 59>>
\* S; / -- d / -- @query q / -- i: I, j: J / -- -> U / S
SampleDocs ==
    <<83, 59, 10, 45, 45, 32, 100, 10,
      45, 45, 32, 64, 113, 117, 101, 114, 121, 32, 113, 10,
      45, 45, 32, 105, 58, 32, 73, 44, 32, 106, 58, 32, 74, 10,
      45, 45, 32, 45, 62, 32, 85, 10,
      83>>
\* -- @query  / S;
SampleNoName == <<45, 45, 32, 64, 113, 117, 101, 114, 121, 32, 10, 83, 59>>
\* -- @query q / -- -> U
SampleDangling ==
    <<45, 45, 32, 64, 113, 117, 101, 114, 121, 32, 113, 10, 45, 45, 32, 45, 62, 32, 85>>

FuzzSamples == {SampleQuery, SampleDocs, SampleNoName, SampleDangling}

InitFuzz ==
    /\ input \in SeqsUpTo(FuzzBytes, MaxFuzzLen) \cup FuzzSamples
    /\ pc = "start"
    /\ toks = <<>> /\ lx = [pos |-> 0, steps |-> 0]
    /\ ps = [cur |-> 1, mode |-> "top", sections |-> <<>>, vstart |-> NoVerbatim,
             qstart |-> 0, have_result |-> FALSE, steps |-> 0,
             result |-> "", error |-> NoSpan]
    /\ build = "debug"
    /\ span = NoSpan /\ hl = NoCall
    /\ err = <<>> /\ printed = <<>>
    /\ parsed = <<>> /\ cursor = <<>> /\ out = <<>>

NextFuzz ==
    \/ FuzzLexerNew \/ LexToken \/ LexEof \/ FuzzParserNew
    \/ ParseLexError \/ ParseVerbatimToken \/ ParseDocLine \/ ParseDirective
    \/ ParseAnnotationLine \/ ParseDocsEnd \/ ParseAnnotationEnd
    \/ ParseStatementToken \/ ParseEof

SpecFuzz == InitFuzz /\ [][NextFuzz]_vars

-----------------------------------------------------------------------------
(* What the claims about highlight_span_in_line speak of, stated from the    *)
(* buffer alone.                                                             *)

Count(seq, c) == Cardinality({i \in DOMAIN seq : seq[i] = c})
IndexOf(seq, c) ==
    IF \E i \in DOMAIN seq : seq[i] = c
    THEN CHOOSE i \in DOMAIN seq : seq[i] = c /\ \A j \in 1..(i - 1) : seq[j] # c
    ELSE 0

NewlinesBelow(buf, off) == {i \in 0..(off - 1) : buf[i + 1] = NL}

\* The byte after the nearest newline strictly before off, or 0.
TrueLineStart(buf, off) ==
    LET nls == NewlinesBelow(buf, off)
    IN  IF nls = {} THEN 0 ELSE 1 + CHOOSE i \in nls : \A j \in nls : j <= i

\* The next newline at or after from, or the end of the buffer.
TrueLineEnd(buf, from) ==
    LET nls == {i \in from..(Len(buf) - 1) : buf[i + 1] = NL}
    IN  IF nls = {} THEN Len(buf) ELSE CHOOSE i \in nls : \A j \in nls : i <= j

LineStartOf(sp) == TrueLineStart(input, sp.start)
LineEndOf(sp) == TrueLineEnd(input, LineStartOf(sp))

\* A rendered block, measured on its text alone.
GutterWidth(textline) == IndexOf(textline, Bar) - 2
SourcePart(block) == SubSeq(block[3], IndexOf(block[3], Bar) + 2, Len(block[3]))
MarkIndent(block) == IndexOf(block[4], Caret) - IndexOf(block[4], Bar) - 2
MarkWidth(block) == Count(block[4], Caret) + Count(block[4], Tilde)

Returned == pc = "returned"
Reported == pc = "returned" /\ hl.outcome = "ok"

C3_PrintsExactLine ==
    Reported => SourcePart(hl.text) = Slice(input, LineStartOf(span), LineEndOf(span))

\* C4: when span.start lies before the end of its line, indent plus underline
\* width stays within the line and the width is max(1, min(span length, bytes
\* left on the line)).
C4_UnderlineClamped ==
    Reported /\ span.start < LineEndOf(span) =>
        /\ MarkIndent(hl.text) + MarkWidth(hl.text) <= LineEndOf(span) - LineStartOf(span)
        /\ MarkWidth(hl.text) =
               Max(1, Min(span.end - span.start, LineEndOf(span) - span.start))

\* C5 as stated: a zero-length span still yields exactly one tilde.
C5_ZeroLengthOneTilde ==
    Reported /\ span.start = span.end => Count(hl.text[4], Tilde) = 1

\* C5 as amended: every report for a zero-length span has an underline of width
\* one, which is the caret alone, with no tilde.
C5_ZeroLengthCaretOnly ==
    Reported /\ span.start = span.end =>
        /\ Count(hl.text[4], Caret) = 1
        /\ Count(hl.text[4], Tilde) = 0
        /\ hl.text[4][Len(hl.text[4])] = Caret

\* C5: a report for a zero-length span that starts inside its line.
C5_Witness ==
    Reported /\ span.start = span.end /\ span.start > LineStartOf(span)

ExpectedHeader(line, column) ==
    <<45, 45, 62, Space>> \o FName \o <<Colon>> \o ToString(line)
        \o <<Colon>> \o ToString(column)

\* C6: the header carries line 1 + (newlines strictly below span.start) and the
\* column span.start - (start of that line); a newline at span.start itself is
\* not counted.  The numbered gutter shows the same line number.
C6_HeaderLineAndColumn ==
    Reported =>
        /\ hl.text[1] = ExpectedHeader(1 + Cardinality(NewlinesBelow(input, span.start)),
                                       span.start - LineStartOf(span))
        /\ SubSeq(hl.text[3], 1, GutterWidth(hl.text[3])) =
               ToString(1 + Cardinality(NewlinesBelow(input, span.start)))

\* C6: a report for a span that starts on a newline byte of a later line.
C6_Witness ==
    /\ Reported
    /\ span.start < Len(input) /\ input[span.start + 1] = NL
    /\ span.start > LineStartOf(span)
    /\ LineStartOf(span) > 0

\* C10: in a block for a line of single-byte characters the two gutters are
\* equally wide, the caret stands in the output column of the byte at
\* span.start, and caret and tildes cover the columns of the next bytes.
C10_CaretAligned ==
    Reported /\ span.start < LineEndOf(span)
             /\ (\A i \in LineStartOf(span)..(LineEndOf(span) - 1) : input[i + 1] < 128) =>
        /\ GutterWidth(hl.text[2]) = GutterWidth(hl.text[3])
        /\ GutterWidth(hl.text[4]) = GutterWidth(hl.text[3])
        /\ \A k \in 0..(MarkWidth(hl.text) - 1) :
               LET col == IndexOf(hl.text[4], Caret) + k
               IN  /\ col <= Len(hl.text[3])
                   /\ hl.text[3][col] = input[span.start + k + 1]
                   /\ hl.text[4][col] = IF k = 0 THEN Caret ELSE Tilde

-----------------------------------------------------------------------------
(* Error::print *)

Kinds(parts) == [i \in DOMAIN parts |-> parts[i].part]

IsPrefix(a, b) == Len(a) <= Len(b) /\ SubSeq(b, 1, Len(a)) = a

\* The parts of a report for error e, in the order the claim gives.
ExpectedKinds(e) ==
    <<"error", "highlight">>
        \o (IF e.note # "none" THEN <<"note">> ELSE <<>>)
        \o (IF e.note = "span" THEN <<"highlight">> ELSE <<>>)
        \o (IF e.hint THEN <<"hint">> ELSE <<>>)

\* C7: the report is written in the order Error line, highlight of the primary
\* span, Note line (if any), highlight of the note span (if any), Hint line (if
\* any) and nothing after it: at every point the output is a prefix of that
\* sequence, a finished print has written all of it, and the two highlights are
\* what highlight_span_in_line yields for the primary and for the note span.
C7_PrintOrder ==
    /\ IsPrefix(Kinds(printed), ExpectedKinds(err))
    /\ pc = "done" => Kinds(printed) = ExpectedKinds(err)
    /\ \A i \in DOMAIN printed :
           printed[i].lines =
               CASE printed[i].part = "error" -> <<ErrorLine>>
                 [] printed[i].part = "note" -> <<NoteLine>>
                 [] printed[i].part = "hint" -> <<HintLine>>
                 [] printed[i].part = "highlight" ->
                        highlight_span_in_line(FName, input,
                            IF i = 2 THEN err.span ELSE err.note_span, build).text

\* C7: a finished report with all five parts, the two highlights differing.
C7_Witness ==
    /\ pc = "done" /\ err.note = "span" /\ err.hint
    /\ Len(printed) = 5
    /\ err.note_span # err.span
    /\ printed[4].lines # printed[2].lines

Blocks == {i \in DOMAIN printed : printed[i].part = "highlight"}

Digits(n) == IF n < 10 THEN 1 ELSE IF n < 100 THEN 2 ELSE 3

LineOf(sp) == 1 + Cardinality(NewlinesBelow(input, sp.start))

\* C8 as stated: every gutter line of both blocks of a report is as wide as the
\* widest line number printed in the report.
C8_GutterMatchesWidest ==
    pc = "done" /\ err.note = "span" =>
        \A i \in Blocks : \A l \in 2..4 :
            GutterWidth(printed[i].lines[l]) =
                Max(Digits(LineOf(err.span)), Digits(LineOf(err.note_span)))

\* C8 as amended: the three gutter lines of one block are as wide as that
\* block's own line number; the blocks of one report are sized independently.
C8_GutterMatchesOwnLine ==
    /\ Len(printed) >= 2 =>
           \A l \in 2..4 : GutterWidth(printed[2].lines[l]) = Digits(LineOf(err.span))
    /\ Len(printed) >= 4 /\ printed[4].part = "highlight" =>
           \A l \in 2..4 : GutterWidth(printed[4].lines[l]) = Digits(LineOf(err.note_span))

\* C8: a finished report whose two blocks have gutters of different widths.
C8_Witness ==
    /\ pc = "done" /\ err.note = "span"
    /\ Len(printed) >= 4 /\ printed[4].part = "highlight"
    /\ GutterWidth(printed[2].lines[2]) = 1
    /\ GutterWidth(printed[4].lines[2]) = 2

-----------------------------------------------------------------------------
(* process_file *)

RECURSIVE Concat(_)
Concat(seqs) == IF seqs = <<>> THEN <<>> ELSE seqs[1] \o Concat(Tail(seqs))

Text(sp) == Slice(input, sp.start, sp.end)

\* What the claim says one section contributes.
SectionOutput(sec) ==
    IF sec.kind = "Verbatim" THEN Text(sec.span)
    ELSE Blue
         \o Concat([i \in 1..Len(sec.docs) |-> DocLine(Text(sec.docs[i]))])
         \o QueryLine(Text(sec.name))
         \o Concat([i \in 1..Len(sec.parameters) |->
                       ParameterLine(Text(sec.parameters[i].ident),
                                     Text(sec.parameters[i].type_))])
         \o ResultLine(Text(sec.result_type))

DocumentOutput(doc) == Concat([i \in 1..Len(doc) |-> SectionOutput(doc[i])])

\* Verbatim sections only, the spans covering the buffer end to end.
Tiles(doc, buf) ==
    /\ \A i \in DOMAIN doc : doc[i].kind = "Verbatim"
    /\ Len(doc) > 0
    /\ doc[1].span.start = 0
    /\ doc[Len(doc)].span.end = Len(buf)
    /\ \A i \in 1..(Len(doc) - 1) : doc[i].span.end = doc[i + 1].span.start

\* C9: the output follows the Document's order: whatever has been written is a
\* prefix of the sections' contributions concatenated in order, a call that
\* returns Ok has written all of them, and for Verbatim sections that tile the
\* input that output is the input.
C9_OutputInDocumentOrder ==
    /\ IsPrefix(out, DocumentOutput(parsed))
    /\ pc = "ok" => out = DocumentOutput(parsed)
    /\ pc = "ok" /\ Tiles(parsed, input) => out = input

\* C9: a call that returned Ok for a Query with two parameters of different
\* types.
C9_Witness ==
    /\ pc = "ok"
    /\ \E i \in DOMAIN parsed :
           /\ parsed[i].kind = "Query"
           /\ Len(parsed[i].parameters) = 2
           /\ Text(parsed[i].parameters[1].type_) # Text(parsed[i].parameters[2].type_)

\* C9: a call that returned Ok for Verbatim sections that tile the input.
C9_WitnessTiles ==
    pc = "ok" /\ Tiles(parsed, input) /\ Len(parsed) >= 2 /\ Len(input) >= 2

-----------------------------------------------------------------------------
(* The fuzz target *)

\* The tokens cover the buffer end to end, and the end marker is last.
TokensCover ==
    /\ toks # <<>>
    /\ toks[1].start = 0
    /\ toks[Len(toks)] = Token("Eof", Len(input), Len(input))
    /\ \A i \in 1..(Len(toks) - 1) :
           /\ toks[i].start < toks[i].end
           /\ toks[i].end = toks[i + 1].start

\* C1: lexing and then parsing any text ends, with a Document or one
\* ParseError, in a number of steps bounded by the input's length: no step
\* leaves the run stuck short of its return, and the lexer has consumed the
\* whole buffer when the parser starts.
C1_LexParseTerminates ==
    /\ lx.steps <= Len(input) + 2
    /\ ps.steps <= 2 * Len(input) + 4
    /\ pc = "returned" \/ ENABLED NextFuzz
    /\ pc = "returned" => ps.result \in {"Document", "ParseError"}
    /\ pc \in {"lexed", "parse", "returned"} => TokensCover
    /\ pc # "returned" => ps.result = ""

\* C1: a parse of a sample text that returned a Document with a Verbatim and
\* a Query section.
C1_Witness ==
    /\ pc = "returned" /\ ps.result = "Document"
    /\ \E i \in DOMAIN ps.sections : ps.sections[i].kind = "Query"
    /\ \E i \in DOMAIN ps.sections : ps.sections[i].kind = "Verbatim"
    /\ Len(input) > MaxFuzzLen

====
